---- MODULE Spec2Model ----
(***************************************************************************)
(* Model of two components of patternfly-yew:                              *)
(*   - the Slider component (src/src/slider.rs): its drag gesture, the     *)
(*     document listeners it owns, and its percent/value mapping;          *)
(*   - the Card function component (src/src/components/card/mod.rs): the   *)
(*     composition of its class list.                                      *)
(*                                                                         *)
(* f64 quantities are modelled as exact rationals <<n, d>> in lowest terms *)
(* with d > 0; the inputs are drawn from integers, so no rounding, NaN or  *)
(* infinity occurs as long as min < max (Props are drawn with min < max).  *)
(***************************************************************************)
EXTENDS Integers, Sequences, FiniteSets, TLC

\* ---------------------------------------------------------------- bounds
\* props.min.value and props.max.value range over -1..MaxDomain
MaxDomain == 1
\* props.value ranges over None and -2..MaxValue
MaxValue == 2
\* client_x of a mouse event ranges over -1..MaxX
MaxX == 3
\* bounding.left() of the rail ranges over 0..MaxLeft
MaxLeft == 1
\* bounding.width() of the rail ranges over 0..MaxWidth
MaxWidth == 2
\* number of mousemoves sent to the slider within one drag
MaxEmitted == 2

\* ------------------------------------------------------------- rationals
Abs(n) == IF n < 0 THEN -n ELSE n

RECURSIVE GCD(_, _)
GCD(a, b) == IF b = 0 THEN a ELSE GCD(b, a % b)

\* n/d in lowest terms with a positive denominator (d # 0)
Rat(n, d) ==
    LET s == IF d < 0 THEN -1 ELSE 1
        g == GCD(Abs(n), Abs(d))
    IN  <<(s * n) \div g, (s * d) \div g>>

Int2Rat(n) == <<n, 1>>
RatSub(a, b) == Rat(a[1] * b[2] - b[1] * a[2], a[2] * b[2])
RatAdd(a, b) == Rat(a[1] * b[2] + b[1] * a[2], a[2] * b[2])
RatMul(a, b) == Rat(a[1] * b[1], a[2] * b[2])
RatDiv(a, b) == Rat(a[1] * b[2], a[2] * b[1])
RatLe(a, b) == a[1] * b[2] <= b[1] * a[2]
RatLt(a, b) == a[1] * b[2] < b[1] * a[2]

Zero == Int2Rat(0)
One == Int2Rat(1)

\* f64::clamp(lo, hi)
clamp(p, lo, hi) == IF RatLt(p, lo) THEN lo ELSE IF RatLt(hi, p) THEN hi ELSE p

\* ------------------------------------------------------------ slider data
\* Option<f64>
None == [some |-> FALSE, v |-> Zero]
Some(v) == [some |-> TRUE, v |-> v]

\* Props (min and max are Steps; only their value takes part in the mapping)
PropsSet ==
    { [min |-> Int2Rat(lo), max |-> Int2Rat(hi), value |-> v] :
        lo \in -1..MaxDomain, hi \in -1..MaxDomain,
        v \in {None} \cup { Some(Int2Rat(i)) : i \in -2..MaxValue } }

\* the configurations the component is documented for: min.value < max.value
ValidProps == { p \in PropsSet : RatLt(p.min, p.max) }

\* what refs.rail.cast::<HtmlElement>() and get_bounding_client_rect() give
NoRail == [present |-> FALSE, left |-> 0, width |-> 0]
Rails == { [present |-> TRUE, left |-> l, width |-> w] : l \in 0..MaxLeft, w \in 0..MaxWidth }

Xs == -1..MaxX

\* Msg
MsgSetPercent(p) == [type |-> "SetPercent", x |-> 0, p |-> p]
MsgStart(x) == [type |-> "Start", x |-> x, p |-> Zero]
MsgMove(x) == [type |-> "Move", x |-> x, p |-> Zero]
MsgStop == [type |-> "Stop", x |-> 0, p |-> Zero]

\* n copies of m
Copies(n, m) == [i \in 1..n |-> m]

VARIABLES
    props,        \* ctx.props() of the slider
    alive,        \* the slider component exists (created, not yet destroyed)
    value,        \* Slider.value: the position, "value in percent (0..=1)"
    mousemove,    \* Slider.mousemove.is_some()
    mouseup,      \* Slider.mouseup.is_some()
    rail,         \* the rail element behind Slider.refs.rail and its geometry
    docMousemove, \* number of the slider's mousemove listeners on the document
    docMouseup,   \* number of the slider's mouseup listeners on the document
    queue,        \* messages sent to the component and not yet handled
    emitted,      \* the values given to props.onchange, in order, since the component was
                  \* created or, later, since the last Msg::Start was handled
    started,      \* history: a Msg::Start has been handled
    moved,        \* history: the percents of the document mousemoves seen while dragging
                  \* since the last Msg::Start was handled
    redown,       \* history: the last Msg::Start was handled while already dragging
    lastSide,     \* history: where the last such mousemove was, relative to the rail
    tornFrom,     \* history: the state the component was destroyed in
    cardProps,    \* CardProperties of the card
    cardClass     \* the class list of the card's last render

sliderVars == <<props, alive, value, mousemove, mouseup, rail, docMousemove, docMouseup,
                queue, emitted, started, moved, redown, lastSide, tornFrom>>
cardVars == <<cardProps, cardClass>>
vars == <<sliderVars, cardVars>>

\* ------------------------------------------------------- slider functions
\* calc_percent with the clamp forgotten
calc_percent_noclamp(v, p) ==
    LET delta == RatSub(p.max, p.min)
    IN  RatDiv(v, delta)

calc_percent(v, p) ==
    LET delta == RatSub(p.max, p.min)
        q == RatDiv(v, delta)
    IN  clamp(q, Zero, One)

calc_value(q, p) ==
    LET delta == RatSub(p.max, p.min)
    IN  RatMul(delta, q)

\* create emitting the percent where it should emit the value
create_emits_percent(p) ==
    LET pv == IF p.value.some
              THEN <<calc_percent(p.value.v, p), p.value.v>>
              ELSE <<Zero, p.min>>
    IN  [value |-> pv[1], mousemove |-> FALSE, mouseup |-> FALSE, emit |-> <<pv[1]>>]

\* Slider::create: the component's fields and the value it emits
create(p) ==
    LET pv == IF p.value.some
              THEN <<calc_percent(p.value.v, p), p.value.v>>
              ELSE <<Zero, p.min>>
    IN  [value |-> pv[1], mousemove |-> FALSE, mouseup |-> FALSE, emit |-> <<pv[2]>>]

\* move_percent with the upper clamp forgotten
move_percent_no_upper(x, left, width) ==
    LET v == x - left
    IN  IF v <= 0 THEN Zero
        ELSE IF width = 0 THEN One
        ELSE Rat(v, width)

\* move_percent dividing whenever the pointer is right of the rail's left edge
move_percent_divides(x, left, width) ==
    LET v == x - left
    IN  IF v <= 0 THEN Zero
        ELSE Rat(v, width)

\* the percent Slider::move computes from client_x and the rail's rectangle
move_percent(x, left, width) ==
    LET v == x - left
    IN  IF v <= 0 THEN Zero
        ELSE IF v >= width THEN One
        ELSE Rat(v, width)

\* the number passed to format! for aria-valuenow in Slider::view
view_value == calc_value(value, props)

\* render_step marking a step active only strictly below the position
render_step_strict(step, p, pos) ==
    LET position == clamp(RatDiv(step, RatSub(p.max, p.min)), Zero, One)
    IN  [position |-> position, active |-> RatLt(position, pos)]

\* Slider::render_step for a step of value step, with self.value = pos: the
\* placement written to the style and whether pf-m-active is pushed
render_step(step, p, pos) ==
    LET position == clamp(RatDiv(step, RatSub(p.max, p.min)), Zero, One)
        active == RatLe(position, pos)
    IN  [position |-> position, active |-> active]

\* the two steps Slider::view renders unless hide_labels is set
view_steps == <<render_step(props.min, props, value), render_step(props.max, props, value)>>

\* the values of the steps render_step is examined on
StepValues == { Int2Rat(i) : i \in -2..MaxValue }

Dragging == mousemove /\ mouseup
Idle == ~mousemove /\ ~mouseup

\* ------------------------------------------------------------ slider steps
\* dropping an Option<EventListener>: a held listener is removed from the document
Dropped(held, n) == IF held THEN n - 1 ELSE n

\* start keeping the old listeners attached when it replaces them
start_leak ==
    /\ docMousemove' = docMousemove + 1
    /\ mousemove' = TRUE
    /\ docMouseup' = docMouseup + 1
    /\ mouseup' = TRUE

\* Slider::start: attach a new mousemove and a new mouseup listener to the
\* document; storing each in its field drops the listener the field held
start ==
    /\ docMousemove' = Dropped(mousemove, docMousemove + 1)
    /\ mousemove' = TRUE
    /\ docMouseup' = Dropped(mouseup, docMouseup + 1)
    /\ mouseup' = TRUE

\* move taking a missing rail for a rectangle of zeros
move_defaults_rail(x) ==
    queue' = Append(Tail(queue), MsgSetPercent(move_percent(x, rail.left, rail.width)))

\* Slider::move: with the rail present, send SetPercent of the computed percent
move(x) ==
    IF rail.present
    THEN queue' = Append(Tail(queue), MsgSetPercent(move_percent(x, rail.left, rail.width)))
    ELSE queue' = Tail(queue)

\* Slider::update, Msg::SetPercent
update_SetPercent ==
    /\ alive /\ queue # <<>> /\ Head(queue).type = "SetPercent"
    /\ value' = Head(queue).p
    /\ emitted' = Append(emitted, calc_value(value', props))
    /\ queue' = Tail(queue)
    /\ UNCHANGED <<props, alive, mousemove, mouseup, rail, docMousemove, docMouseup,
                   started, moved, redown, lastSide, tornFrom, cardVars>>

\* Slider::update, Msg::Start
update_Start ==
    /\ alive /\ queue # <<>> /\ Head(queue).type = "Start"
    /\ start
    /\ queue' = Tail(queue)
    /\ started' = TRUE
    /\ emitted' = <<>>
    /\ moved' = <<>>
    /\ redown' = mousemove
    /\ lastSide' = "none"
    /\ UNCHANGED <<props, alive, value, rail, tornFrom, cardVars>>

\* Slider::update, Msg::Move
update_Move ==
    /\ alive /\ queue # <<>> /\ Head(queue).type = "Move"
    /\ move(Head(queue).x)
    /\ UNCHANGED <<props, alive, value, mousemove, mouseup, rail, docMousemove, docMouseup,
                   emitted, started, moved, redown, lastSide, tornFrom, cardVars>>

\* Msg::Stop releasing the mouseup listener alone
update_Stop_keeps_mousemove ==
    /\ alive /\ queue # <<>> /\ Head(queue).type = "Stop"
    /\ docMouseup' = Dropped(mouseup, docMouseup)
    /\ mouseup' = FALSE
    /\ queue' = Tail(queue)
    /\ UNCHANGED <<props, alive, value, rail, emitted, started, moved, redown, lastSide, tornFrom,
                   mousemove, docMousemove, cardVars>>

\* Msg::Stop emitting the current value once more
update_Stop_notifies ==
    /\ alive /\ queue # <<>> /\ Head(queue).type = "Stop"
    /\ docMousemove' = Dropped(mousemove, docMousemove)
    /\ mousemove' = FALSE
    /\ docMouseup' = Dropped(mouseup, docMouseup)
    /\ mouseup' = FALSE
    /\ queue' = Tail(queue)
    /\ emitted' = Append(emitted, calc_value(value, props))
    /\ UNCHANGED <<props, alive, value, rail, started, moved, redown, lastSide, tornFrom, cardVars>>

\* Slider::update, Msg::Stop
update_Stop ==
    /\ alive /\ queue # <<>> /\ Head(queue).type = "Stop"
    /\ docMousemove' = Dropped(mousemove, docMousemove)
    /\ mousemove' = FALSE
    /\ docMouseup' = Dropped(mouseup, docMouseup)
    /\ mouseup' = FALSE
    /\ queue' = Tail(queue)
    /\ UNCHANGED <<props, alive, value, rail, emitted, started, moved, redown, lastSide, tornFrom, cardVars>>

\* the component destroyed with its listeners left on the document
drop_Slider_leak ==
    /\ alive
    /\ alive' = FALSE
    /\ mousemove' = FALSE
    /\ mouseup' = FALSE
    /\ queue' = <<>>
    /\ rail' = NoRail
    /\ tornFrom' = IF mousemove THEN "Dragging" ELSE "Idle"
    /\ UNCHANGED <<props, value, emitted, started, moved, redown, lastSide, docMousemove,
                   docMouseup, cardVars>>

\* the component is destroyed: the Slider is dropped, and with it its fields;
\* messages still queued for it are never handled
drop_Slider ==
    /\ alive
    /\ alive' = FALSE
    /\ docMousemove' = Dropped(mousemove, docMousemove)
    /\ mousemove' = FALSE
    /\ docMouseup' = Dropped(mouseup, docMouseup)
    /\ mouseup' = FALSE
    /\ queue' = <<>>
    /\ rail' = NoRail
    /\ tornFrom' = IF mousemove THEN "Dragging" ELSE "Idle"
    /\ UNCHANGED <<props, value, emitted, started, moved, redown, lastSide, cardVars>>

\* ------------------------------------------------------------ environment
\* the first render of Slider::view puts the rail and the thumb into the page
Rendered ==
    /\ alive /\ queue = <<>> /\ ~rail.present
    /\ rail' \in Rails
    /\ UNCHANGED <<props, alive, value, mousemove, mouseup, docMousemove, docMouseup,
                   queue, emitted, started, moved, redown, lastSide, tornFrom, cardVars>>

\* the page is laid out anew: the rail's bounding rectangle changes
Layout ==
    /\ alive /\ queue = <<>> /\ rail.present
    /\ rail' \in Rails \ {rail}
    /\ UNCHANGED <<props, alive, value, mousemove, mouseup, docMousemove, docMouseup,
                   queue, emitted, started, moved, redown, lastSide, tornFrom, cardVars>>

\* mousedown on the thumb: the onmousedown callback of Slider::view
ThumbMouseDown ==
    /\ alive /\ queue = <<>> /\ rail.present
    /\ \E x \in Xs : queue' = <<MsgStart(x)>>
    /\ UNCHANGED <<props, alive, value, mousemove, mouseup, rail, docMousemove, docMouseup,
                   emitted, started, moved, redown, lastSide, tornFrom, cardVars>>

\* where client_x lies relative to the rail's rectangle
Side(x, r) ==
    IF x < r.left THEN "left" ELSE IF x > r.left + r.width THEN "right" ELSE "inside"

\* mousemove anywhere in the document: every attached mousemove listener of
\* the slider sends Msg::Move(client_x)
DocMouseMove ==
    /\ queue = <<>>
    /\ docMousemove = 0 \/ Len(emitted) < MaxEmitted
    /\ \E x \in Xs :
        /\ queue' = IF alive THEN Copies(docMousemove, MsgMove(x)) ELSE <<>>
        /\ IF alive /\ Dragging /\ rail.present
           THEN /\ moved' = Append(moved, move_percent(x, rail.left, rail.width))
                /\ lastSide' = Side(x, rail)
           ELSE IF alive /\ Dragging
           THEN /\ lastSide' = "norail"
                /\ UNCHANGED moved
           ELSE UNCHANGED <<moved, lastSide>>
    /\ UNCHANGED <<props, alive, value, mousemove, mouseup, rail, docMousemove, docMouseup,
                   emitted, started, redown, tornFrom, cardVars>>

\* mouseup anywhere in the document: every attached mouseup listener of the
\* slider sends Msg::Stop
DocMouseUp ==
    /\ queue = <<>>
    /\ queue' = IF alive THEN Copies(docMouseup, MsgStop) ELSE <<>>
    /\ UNCHANGED <<props, alive, value, mousemove, mouseup, rail, docMousemove, docMouseup,
                   emitted, started, moved, redown, lastSide, tornFrom, cardVars>>

\* the percents a Msg::SetPercent sent through the component's scope carries
SentPercents == {Zero, Rat(1, 2), One}

\* a message sent to the component through its scope (Msg is public) while
\* nothing of it is rendered yet
SendMessage ==
    /\ alive /\ queue = <<>> /\ ~rail.present
    /\ \/ \E x \in Xs : queue' = <<MsgStart(x)>>
       \/ \E x \in Xs : queue' = <<MsgMove(x)>>
       \/ /\ Len(emitted) < MaxEmitted
          /\ \E q \in SentPercents : queue' = <<MsgSetPercent(q)>>
       \/ queue' = <<MsgStop>>
    /\ UNCHANGED <<props, alive, value, mousemove, mouseup, rail, docMousemove, docMouseup,
                   emitted, started, moved, redown, lastSide, tornFrom, cardVars>>

\* ------------------------------------------------------------------- card
CardSizes == {"Default", "Compact", "Large"}
CardFlags == {"selectable", "selected", "clickable", "disabled", "flat", "rounded",
              "full_height", "plain", "expanded", "onclick"}

\* CardProperties as the #[prop_or_default] attributes leave them; onclick
\* stands for onclick.is_some(), class for the additional classes
DefaultCardProps ==
    [size |-> "Default", class |-> <<>>, selectable |-> FALSE, selected |-> FALSE,
     clickable |-> FALSE, disabled |-> FALSE, flat |-> FALSE, rounded |-> FALSE,
     full_height |-> FALSE, plain |-> FALSE, expanded |-> FALSE, onclick |-> FALSE]

ExtraClasses == {<<>>, <<"my-card">>}

Range(seq) == { seq[i] : i \in DOMAIN seq }

\* Classes::push: a class already in the list is not added again
push(class, c) == IF c \in Range(class) THEN class ELSE Append(class, c)

\* cond: class.push(c)
pushIf(class, cond, c) == IF cond THEN push(class, c) ELSE class

RECURSIVE extend(_, _)
\* Classes::extend
extend(class, more) ==
    IF more = <<>> THEN class ELSE extend(push(class, Head(more)), Tail(more))

\* the class list composed by the card function
card(p) ==
    LET c0 == <<"pf-v5-c-card">>
        c1 == pushIf(c0, p.size = "Compact", "pf-m-compact")
        c2 == pushIf(c1, p.size = "Large", "pf-m-display-lg")
        c3 == pushIf(c2, p.disabled, "pf-m-disabled")
        c4 == pushIf(c3, p.expanded, "pf-m-expanded")
        c5 == pushIf(c4, p.flat, "pf-m-flat")
        c6 == pushIf(c5, p.selectable, "pf-m-selectable")
        c7 == pushIf(c6, p.selected, "pf-m-selected")
        c8 == pushIf(c7, p.full_height, "pf-m-full-height")
        c9 == pushIf(c8, p.rounded, "pf-m-rounded")
        c10 == pushIf(c9, p.plain, "pf-m-plain")
        clickable == p.clickable \/ p.onclick
        c11 == IF p.selectable /\ clickable
               THEN pushIf(push(push(c10, "pf-m-selectable"), "pf-m-clickable"),
                           p.selected, "pf-m-current")
               ELSE IF p.selectable
               THEN pushIf(push(c10, "pf-m-selectable"), p.selected, "pf-m-selected")
               ELSE IF clickable
               THEN pushIf(push(c10, "pf-m-clickable"), p.selected, "pf-m-selected")
               ELSE c10
    IN  extend(c11, p.class)

\* the parent renders the card again with one boolean property changed
CardSetFlag ==
    /\ \E f \in CardFlags : cardProps' = [cardProps EXCEPT ![f] = ~cardProps[f]]
    /\ cardClass' = card(cardProps')
    /\ UNCHANGED sliderVars

\* the parent renders the card again with another size
CardSetSize ==
    /\ \E sz \in CardSizes \ {cardProps.size} : cardProps' = [cardProps EXCEPT !.size = sz]
    /\ cardClass' = card(cardProps')
    /\ UNCHANGED sliderVars

\* the parent renders the card again with other additional classes
CardSetClass ==
    /\ \E cl \in ExtraClasses \ {cardProps.class} : cardProps' = [cardProps EXCEPT !.class = cl]
    /\ cardClass' = card(cardProps')
    /\ UNCHANGED sliderVars

\* ---------------------------------------------------------- specifications
\* a card with the default properties, rendered once
CardInit ==
    /\ cardProps = DefaultCardProps
    /\ cardClass = card(cardProps)

\* a slider just created from its properties
SliderInit(p) ==
    LET s == create(p)
    IN  /\ props = p
        /\ alive = TRUE
        /\ value = s.value
        /\ mousemove = s.mousemove
        /\ mouseup = s.mouseup
        /\ emitted = s.emit
        /\ rail = NoRail
        /\ docMousemove = 0
        /\ docMouseup = 0
        /\ queue = <<>>
        /\ started = FALSE
        /\ moved = <<>>
        /\ redown = FALSE
        /\ lastSide = "none"
        /\ tornFrom = "none"

Init ==
    /\ \E p \in ValidProps : SliderInit(p)
    /\ CardInit

Next ==
    \/ Rendered
    \/ Layout
    \/ ThumbMouseDown
    \/ DocMouseMove
    \/ DocMouseUp
    \/ update_Start
    \/ update_Move
    \/ update_SetPercent
    \/ update_Stop
    \/ drop_Slider

\* the slider, from creation to destruction
Spec == Init /\ [][Next]_vars

NextUnrendered ==
    \/ SendMessage
    \/ DocMouseMove
    \/ DocMouseUp
    \/ update_Start
    \/ update_Move
    \/ update_SetPercent
    \/ update_Stop
    \/ drop_Slider

\* the slider between its creation and its first render, driven by messages
\* sent through its scope: the rail is not there yet
SpecUnrendered == Init /\ [][NextUnrendered]_vars

InitCard ==
    /\ SliderInit([min |-> Zero, max |-> One, value |-> None])
    /\ CardInit

NextCard ==
    \/ CardSetFlag
    \/ CardSetSize
    \/ CardSetClass

\* the card, rendered again and again with changing properties
SpecCard == InitCard /\ [][NextCard]_vars

\* ------------------------------------------------------------- properties
Last(seq) == seq[Len(seq)]

\* the value the specification gives for a position: min + p * (max - min)
ToValue(q, p) == RatAdd(p.min, RatMul(q, RatSub(p.max, p.min)))

\* the position the specification gives for a value: (v - min) / (max - min), clamped
ToPercent(v, p) == clamp(RatDiv(RatSub(v, p.min), RatSub(p.max, p.min)), Zero, One)

\* C1: in every state reachable from mount the stored position is within
\* [0, 1], also when the slider was mounted with a value outside [min, max].
C1_PositionInUnitInterval == RatLe(Zero, value) /\ RatLe(value, One)

\* C1 witness: mounted with a value above max, a move has been handled and
\* left the position strictly inside the interval
C1_Witness ==
    /\ props.value.some /\ RatLt(props.max, props.value.v)
    /\ started /\ emitted # <<>> /\ queue = <<>>
    /\ RatLt(Zero, value) /\ RatLt(value, One)

\* C2: the slider has exactly one mousemove and one mouseup listener on the
\* document while Dragging and none while Idle, and is always in one of the
\* two states; a pointer-down while Dragging leaves one pair, never two.
C2_OneListenerPair ==
    alive =>
        /\ Dragging \/ Idle
        /\ docMousemove = (IF Dragging THEN 1 ELSE 0)
        /\ docMouseup = (IF Dragging THEN 1 ELSE 0)

\* C2 witness: a pointer-down was handled while already dragging
C2_Witness == alive /\ Dragging /\ redown /\ queue = <<>> /\ docMousemove = 1 /\ docMouseup = 1

\* C3: once every message is handled, the notifications emitted since the
\* last pointer-down are exactly those of the document mousemoves seen while
\* dragging since then, one per move and in their order; a mousemove after
\* the pointer-up adds none.
C3_OneNotificationPerMove ==
    (alive /\ queue = <<>> /\ started) =>
        emitted = [i \in 1..Len(moved) |-> calc_value(moved[i], props)]

\* C3 witness: a drag of two moves to different places has ended
C3_Witness ==
    /\ alive /\ Idle /\ queue = <<>> /\ started
    /\ Len(moved) = 2 /\ moved[1] # moved[2]
    /\ Len(emitted) = 2

\* C4: mounting emits exactly one notification before any pointer-down is
\* handled, carrying v for value Some(v) and min.value for None.
C4_MountEmitsOnce ==
    ~started => emitted = <<IF props.value.some THEN props.value.v ELSE props.min>>

\* C4 witness: a rendered slider mounted with a value that is neither min nor
\* its own percent, no pointer-down handled yet
C4_Witness ==
    /\ alive /\ rail.present /\ ~started
    /\ props.value.some /\ props.value.v # props.min /\ props.value.v # value
    /\ emitted = <<props.value.v>>

\* C5: once the slider is destroyed, from Idle or from Dragging, none of its
\* listeners is on the document, and no step changes its position or emits.
C5_TeardownDetaches ==
    /\ [](~alive => docMousemove = 0 /\ docMouseup = 0 /\ queue = <<>>)
    /\ [][~alive => UNCHANGED <<value, emitted>>]_vars

\* C5 witness: destroyed in the middle of a drag
C5_Witness == ~alive /\ tornFrom = "Dragging" /\ moved # <<>> /\ docMousemove = 0

\* C6: the value the slider reports for its position, as the rendered
\* current value and in every notification caused by a move, is
\* min + position * (max - min).
C6_ValueIsMinPlusScaled ==
    alive =>
        /\ view_value = ToValue(value, props)
        /\ (started /\ emitted # <<>>) => Last(emitted) = ToValue(value, props)

\* C7: mounted with Some(v), the initial position is (v - min) / (max - min)
\* clamped to [0, 1].
C7_InitialPosition ==
    (props.value.some /\ ~started) => value = ToPercent(props.value.v, props)

\* C8: for min <= v <= max, mapping v to a percent and back returns v.
C8_RoundTrip ==
    (props.value.some /\ RatLe(props.min, props.value.v) /\ RatLe(props.value.v, props.max))
        => calc_value(calc_percent(props.value.v, props), props) = props.value.v

\* C9: a card that is selectable, selected and clickable (by flag or by
\* onclick) has pf-m-selectable, pf-m-clickable and pf-m-current in its class
\* list and has not pf-m-selected.
C9_SelectableClickableCurrent ==
    (cardProps.selectable /\ cardProps.selected /\ (cardProps.clickable \/ cardProps.onclick))
        => /\ {"pf-m-selectable", "pf-m-clickable", "pf-m-current"} \subseteq Range(cardClass)
           /\ "pf-m-selected" \notin Range(cardClass)

\* C10: once a mousemove seen while dragging is handled, the position is
\* exactly 0 if the pointer was left of the rail and exactly 1 if it was
\* right of it.
C10_OutsideClamps ==
    (alive /\ queue = <<>>) =>
        /\ lastSide = "left" => value = Zero
        /\ lastSide = "right" => value = One

\* C10 witness: a move right of a rail of positive width was handled after
\* the position had been elsewhere
C10_Witness ==
    /\ alive /\ Dragging /\ queue = <<>> /\ lastSide = "right" /\ rail.width > 0
    /\ Len(moved) = 2 /\ moved[1] # One /\ value = One

\* C11: handling a pointer-up (Msg::Stop) while Dragging leaves the slider
\* Idle with no listener on the document, emits no notification and leaves
\* the position unchanged.
C11_StopIsSilent ==
    [][(alive /\ Dragging /\ queue # <<>> /\ Head(queue).type = "Stop" /\ alive')
        => /\ Idle' /\ docMousemove' = 0 /\ docMouseup' = 0
           /\ emitted' = emitted
           /\ value' = value
           /\ queue' = Tail(queue)]_vars

\* C11 witness: a drag that moved the thumb off 0 has been ended by a pointer-up
C11_Witness ==
    /\ alive /\ Idle /\ queue = <<>> /\ started /\ rail.present
    /\ moved # <<>> /\ Len(emitted) = Len(moved) /\ value # Zero

\* C12: a Msg::Move handled while the rail's width is 0 never divides by the
\* width: the percent it sends is exactly 0 or exactly 1, and that percent
\* becomes the position.
C12_ZeroWidthNoDivision ==
    [][(alive /\ alive' /\ queue # <<>> /\ rail.present /\ rail.width = 0)
        => /\ Head(queue).type = "Move"
                => /\ queue' # <<>>
                   /\ Last(queue') \in {MsgSetPercent(Zero), MsgSetPercent(One)}
           /\ Head(queue).type = "SetPercent"
                => /\ value' = Head(queue).p
                   /\ value' \in {Zero, One}]_vars

\* C12 witness: on a rail of width 0 a move right of the rail's left edge has
\* been handled and has put the position to 1
C12_Witness ==
    /\ alive /\ Dragging /\ queue = <<>> /\ rail.present /\ rail.width = 0
    /\ lastSide = "right" /\ moved = <<One>> /\ value = One
    /\ emitted = <<calc_value(One, props)>>

\* C13: a Msg::Move handled while the rail is not available is a no-op: the
\* handler completes, the position, the notifications, the drag session and
\* its listeners stay as they were.
C13_MoveWithoutRailIsNoop ==
    [][(alive /\ alive' /\ queue # <<>> /\ Head(queue).type = "Move" /\ ~rail.present)
        => /\ queue' = Tail(queue)
           /\ UNCHANGED <<value, emitted, mousemove, mouseup, docMousemove, docMouseup, rail>>]_vars

\* C13 witness: during a drag begun before the first render, a document
\* mousemove has been sent to the slider and handled
C13_Witness ==
    /\ alive /\ Dragging /\ queue = <<>> /\ ~rail.present
    /\ lastSide = "norail" /\ docMousemove = 1 /\ emitted = <<>>

\* the placement the specification gives a step: step.value / (max - min), clamped
StepPlacement(step, p) == clamp(RatDiv(step, RatSub(p.max, p.min)), Zero, One)

\* C14: for every step, bounds min < max and position, the rendered placement
\* of the step is step.value / (max - min) clamped to [0, 1] and the step is
\* active exactly when that placement is <= the position; with min = 0,
\* max = 100 and position 1/2 a step at 40 is active and a step at 60 is not.
\* Stated of the states the view is rendered from: every message handled.
C14_StepPlacementAndActive ==
    (alive /\ queue = <<>>) =>
        /\ \A step \in StepValues \cup {props.min, props.max} :
            LET r == render_step(step, props, value)
            IN  /\ r.position = StepPlacement(step, props)
                /\ r.active <=> RatLe(StepPlacement(step, props), value)
        /\ LET p100 == [min |-> Zero, max |-> Int2Rat(100), value |-> None]
           IN  /\ render_step(Int2Rat(40), p100, Rat(1, 2)).active
               /\ ~render_step(Int2Rat(60), p100, Rat(1, 2)).active

\* C14 witness: after a move to the middle of the rail the view renders the
\* min step active and the max step, placed at the position itself or
\* beyond it, once active and once not
C14_Witness ==
    /\ alive /\ queue = <<>> /\ started /\ value = Rat(1, 2)
    /\ view_steps[1].active
    /\ ~view_steps[2].active
    /\ view_steps[2].position = One

====
